---- MODULE Spec2Model ----
(***************************************************************************)
(* Model of CDBIO::read_mesh (src/src/mesh/cdb_io.C): the line-oriented    *)
(* reader of ANSYS *.cdb files.  The input file is a sequence of lines;    *)
(* the stream keeps a position and the eof/fail bits of std::istream.      *)
(* A line is a record                                                      *)
(*    k   : what the text of the line looks like                           *)
(*    tok : the comma separated fields of the line (each a sequence of     *)
(*          characters), as tokenize() returns them                        *)
(*    v   : the whitespace separated numbers of the line, as operator>>    *)
(*          reads them (coordinates are integers standing for decimals)    *)
(***************************************************************************)
EXTENDS Integers, Sequences, FiniteSets, TLC

VARIABLES
  file, trailingNL,          \* the input: its lines, and whether the last line ends in '\n'
  reads,                     \* the number of read() calls made on the reader object
  in,                        \* std::istream & in : [pos, eof, fail]
  s,                         \* std::string s : number of the file line it holds (0: empty string)
  pc,                        \* position in read_mesh
  id, iel, block_num, nodeset_id, ansys_element_type,
  indeterminate_type,        \* what the storage of ansys_element_type holds before the first assignment
  ansys_to_libmesh_node_id_map,
  cdb_maps,                  \* the static CDBIO::_cdb_maps
  mesh_points, mesh_elems, subdomain_names, nodesets, nodeset_names,
  prev_elem_nodes, block_elem_types, block_nums,
  n_nodeset_nodes, nodes, nodeset_name, prev_line,
  nodeMatches,               \* history: file lines matched by the node regex, in order
  classified,                \* history: file lines the driver loop classified, in order
  lastBlock,                 \* history: the branch of the driver loop that ran last
  endLine,                   \* history: the line whose mismatch ended the last block (0: none)
  handoff,                   \* history: [from, endLine, next] at the first driver read after a block
  groupVals,                 \* history: the numbers the record loop of the current group block read
  records,                   \* history: [line, nodes, code, iel, declared, raw] of every connectivity record read
  blocks                     \* history: [iel0, num0] of every element block, iel and block_num at its start

vars == <<file, trailingNL, indeterminate_type, reads, in, s, pc, id, iel, block_num, nodeset_id,
          ansys_element_type, ansys_to_libmesh_node_id_map, cdb_maps,
          mesh_points, mesh_elems, subdomain_names, nodesets, nodeset_names,
          prev_elem_nodes, block_elem_types, block_nums,
          n_nodeset_nodes, nodes, nodeset_name, prev_line,
          nodeMatches, classified, lastBlock, endLine, handoff, groupVals, records, blocks>>

----------------------------------------------------------------------------
(* Bounds of the model *)

MaxNodeLines == 2
MaxRecs == 3
MaxGroupLines == 2
MaxPoints == 24
MaxElems == 4
MaxGroupNodes == 12
MaxDriverReads == 16
MaxReads == 2

----------------------------------------------------------------------------
(* Small helpers on sequences and maps *)

Range(q) == { q[i] : i \in 1..Len(q) }

EmptyMap == [x \in {} |-> 0]

\* std::map::operator[] : the value under k, default-constructed when absent
MapAt(m, k, dflt) == IF k \in DOMAIN m THEN m[k] ELSE dflt

\* std::map::operator[] : the map after the access (absent keys are inserted)
MapTouch(m, k, dflt) == IF k \in DOMAIN m THEN m ELSE (k :> dflt) @@ m

\* m[k] = val
MapPut(m, k, val) == (k :> val) @@ m

RECURSIVE Flatten(_)
Flatten(qq) == IF qq = <<>> THEN <<>> ELSE Head(qq) \o Flatten(Tail(qq))

----------------------------------------------------------------------------
(* Characters, tokens and conversions *)

Digits == <<"0","1","2","3","4","5","6","7","8","9">>

IsSpace(c) == c = " "

IsDigit(c) == \E d \in 1..10 : Digits[d] = c

DigitVal(c) == (CHOOSE d \in 1..10 : Digits[d] = c) - 1

RECURSIVE TrimLeft(_)
TrimLeft(t) == IF t # <<>> /\ IsSpace(Head(t)) THEN TrimLeft(Tail(t)) ELSE t

RECURSIVE TrimRight(_)
TrimRight(t) ==
  IF t # <<>> /\ IsSpace(t[Len(t)]) THEN TrimRight(SubSeq(t, 1, Len(t) - 1)) ELSE t

\* a trim that leaves the whitespace at the end
Trim_left(t) == TrimLeft(t)

\* boost::algorithm::trim
Trim(t) == TrimRight(TrimLeft(t))

RECURSIVE DigitPrefix(_)
DigitPrefix(t) ==
  IF t # <<>> /\ IsDigit(Head(t)) THEN <<Head(t)>> \o DigitPrefix(Tail(t)) ELSE <<>>

RECURSIVE DigitsValue(_, _)
DigitsValue(t, acc) ==
  IF t = <<>> THEN acc ELSE DigitsValue(Tail(t), 10 * acc + DigitVal(Head(t)))

\* std::stoi converts the leading digits after optional whitespace ...
Stoi(t) == DigitsValue(DigitPrefix(TrimLeft(t)), 0)

\* the digits of the largest int, 2147483647
IntMaxDigits == <<"2","1","4","7","4","8","3","6","4","7">>

RECURSIVE StripZeros(_)
StripZeros(d) == IF Len(d) > 1 /\ Head(d) = "0" THEN StripZeros(Tail(d)) ELSE d

\* of two digit sequences of one length the first stands for the greater number
RECURSIVE DigitsGreater(_, _)
DigitsGreater(a, b) ==
  IF a = <<>> THEN FALSE
  ELSE IF Head(a) # Head(b) THEN DigitVal(Head(a)) > DigitVal(Head(b))
  ELSE DigitsGreater(Tail(a), Tail(b))

\* the number the digits stand for is greater than the largest int
ExceedsInt(d) ==
  LET z == StripZeros(d)
  IN  Len(z) > Len(IntMaxDigits) \/ (Len(z) = Len(IntMaxDigits) /\ DigitsGreater(z, IntMaxDigits))

\* ... and throws std::invalid_argument when there are none, std::out_of_range when
\* their value is no int
StoiThrows(t) == DigitPrefix(TrimLeft(t)) = <<>> \/ ExceedsInt(DigitPrefix(TrimLeft(t)))

\* the text of a number contains "-1": it is negative and its first digit is 1
RECURSIVE LeadingDigit(_)
LeadingDigit(n) == IF n < 10 THEN n ELSE LeadingDigit(n \div 10)

NumHasMinusOne(n) == n < 0 /\ LeadingDigit(0 - n) = 1

RECURSIVE TokHasMinusOne(_)
TokHasMinusOne(t) ==
  IF Len(t) < 2 THEN FALSE
  ELSE (t[1] = "-" /\ t[2] = "1") \/ TokHasMinusOne(Tail(t))

----------------------------------------------------------------------------
(* Lines of a *.cdb file *)

Line(kind, toks, nums) == [k |-> kind, tok |-> toks, v |-> nums]

EmptyLine == Line("empty", <<<<>>>>, <<>>)

\* "NBLOCK,6,SOLID,"
NB == Line("NBLOCK", <<<<"N">>, <<"6">>, <<"S">>>>, <<>>)

\* a format line such as "(3i9,6e21.13e3)": it carries no data
FMT == Line("other", <<<<"(">>, <<")">>>>, <<>>)

\* the line that closes a coordinate block in ANSYS output, "N,R5.3,LOC,-1,"
NEND == Line("other", <<<<"N">>, <<"R">>, <<"L">>, <<"-","1">>, <<>>>>, <<>>)

\* "EBLOCK,19,SOLID,"
EBLOCK == Line("other", <<<<"E">>, <<"1","9">>, <<"S">>>>, <<>>)

\* "   <id> 0 0 <x>.0 <y>.0 <z>.0"
NodeLine(aid, x) == Line("node", <<<<>>>>, <<aid, 0, 0, x, x + 1, x + 2>>)

\* "   <id> 0 0 abc 0.0 0.0": a node record with a non-numeric coordinate
BadNodeLine(aid) == Line("badnode", <<<<>>>>, <<aid, 0, 0>>)

\* "ET,1,<code>"
ETLine(code) == Line("ET", <<<<"E","T">>, <<"1">>, code>>, <<>>)

\* "TYPE, 1"
TYPE == Line("TYPE", <<<<"T">>, <<" ","1">>>>, <<>>)

\* a line of whitespace separated integers (element records, group records, "-1")
Ints(nums) == Line("ints", <<<<>>>>, nums)

\* "CM,<name>,ELEM"
NameLine(name) == Line("other", <<<<"C","M">>, name, <<"E">>>>, <<>>)

\* "CMBLOCK,<name>,NODE,<count>"
CMB(name, count) == Line("CMBLOCK", <<<<"C">>, name, <<"N">>, count>>, <<>>)

\* s.find("NBLOCK,6,SOLID") == 0
StartsNBLOCK(l) == l.k = "NBLOCK"

\* s.find("ET,") == 0
StartsET(l) == l.k = "ET"

\* s.find("TYPE,") == 0
StartsTYPE(l) == l.k = "TYPE"

\* s.find("CMBLOCK,") != npos
HasCMBLOCK(l) == l.k = "CMBLOCK"

\* the node regexp: three integers and three decimals after leading whitespace
MatchesNodeRegex(l) == l.k = "node"

\* nodeset_regex: one or more integers, each after whitespace
MatchesNodesetRegex(l) == l.k = "ints" /\ Len(l.v) > 0

\* s.find("-1") != npos
HasMinusOne(l) ==
  \/ \E i \in 1..Len(l.v) : NumHasMinusOne(l.v[i])
  \/ \E i \in 1..Len(l.tok) : TokHasMinusOne(l.tok[i])

\* tokenize(s): the comma separated fields
tokenize(l) == l.tok

----------------------------------------------------------------------------
(* std::istream over the file *)

NLines == Len(file)

\* the text held by a string variable
Text(n) == IF n = 0 THEN EmptyLine ELSE file[n]

Good(st) == ~st.eof /\ ~st.fail

\* std::getline(in, s): the stream and the string afterwards
Getline(st, str) ==
  IF ~Good(st) THEN [st |-> [st EXCEPT !.fail = TRUE], s |-> str]
  ELSE IF st.pos = NLines
    THEN [st |-> [st EXCEPT !.eof = TRUE, !.fail = TRUE], s |-> 0]
  ELSE IF st.pos = NLines - 1 /\ ~trailingNL
    THEN [st |-> [st EXCEPT !.pos = NLines, !.eof = TRUE], s |-> NLines]
  ELSE [st |-> [st EXCEPT !.pos = st.pos + 1], s |-> st.pos + 1]

\* in.tellg(): the sentry sets failbit on a stream that is not good; -1 on failure
Tellg(st) ==
  IF ~Good(st) THEN [st |-> [st EXCEPT !.fail = TRUE], p |-> -1]
  ELSE [st |-> st, p |-> st.pos]

\* in.seekg(p): eofbit is cleared first; nothing moves on a failed stream
Seekg(st, p) ==
  IF st.fail THEN [st EXCEPT !.eof = FALSE]
  ELSE IF p < 0 THEN [st EXCEPT !.eof = FALSE, !.fail = TRUE]
  ELSE [st EXCEPT !.eof = FALSE, !.pos = p]

----------------------------------------------------------------------------
(* The element type table: CDBIO::_cdb_maps *)

\* a default-constructed AnsysElementDefinition: three empty maps
EmptyDefinition ==
  [ansys_node_ordering_map |-> EmptyMap,
   ansys_to_libmesh_elem_type_map |-> EmptyMap,
   ansys_to_libmesh_elem_type_string_map |-> EmptyMap]

\* the value-initialised libMesh::ElemType that std::map::operator[] inserts
DefaultElemType == "EDGE2"

\* the empty std::string that std::map::operator[] inserts
DefaultTypeString == <<>>

\* emplace keeps an entry that is already there
Emplace(m, k, val) == IF k \in DOMAIN m THEN m ELSE (k :> val) @@ m

add_elem_sub_mapping(def, ansys_node_ordering, elem_type, elem_type_string) ==
  [ansys_node_ordering_map |->
     Emplace(def.ansys_node_ordering_map, Len(ansys_node_ordering), ansys_node_ordering),
   ansys_to_libmesh_elem_type_map |->
     Emplace(def.ansys_to_libmesh_elem_type_map, Len(ansys_node_ordering), elem_type),
   ansys_to_libmesh_elem_type_string_map |->
     Emplace(def.ansys_to_libmesh_elem_type_string_map, Len(ansys_node_ordering), elem_type_string)]

add_def(em, ansys_type, eledef) == Emplace(em, ansys_type, eledef)

hex_ordering == <<3,0,1,2,7,4,5,6,11,8,9,10,19,16,17,18,15,12,13,14>>

tet_ordering == <<2,0,1,3,6,4,5,9,7,8>>

prism_ordering == <<2,0,1,5,3,4,8,6,7,14,12,13,11,9,10>>

pyramid_ordering == <<3,0,1,2,4,8,5,6,7,12,9,10,11>>

SOLID226 == 226

build_element_maps ==
  add_def(EmptyMap, SOLID226,
    add_elem_sub_mapping(
      add_elem_sub_mapping(
        add_elem_sub_mapping(
          add_elem_sub_mapping(EmptyDefinition, hex_ordering, "HEX20", <<"HEX20">>),
          tet_ordering, "TET10", <<"TET10">>),
        prism_ordering, "PRISM15", <<"PRISM15">>),
      pyramid_ordering, "PYRAMID13", <<"PYR13">>))

\* _cdb_maps[code] followed by [n] on each of the three maps: the table afterwards
TouchTable(maps, code, n) ==
  LET def == MapAt(maps, code, EmptyDefinition)
  IN  MapPut(maps, code,
        [ansys_node_ordering_map |-> MapTouch(def.ansys_node_ordering_map, n, <<>>),
         ansys_to_libmesh_elem_type_map |->
           MapTouch(def.ansys_to_libmesh_elem_type_map, n, DefaultElemType),
         ansys_to_libmesh_elem_type_string_map |->
           MapTouch(def.ansys_to_libmesh_elem_type_string_map, n, DefaultTypeString)])

\* the number of node slots of an element Elem::build_with_id creates
NSlots(elem_type) ==
  CASE elem_type = "HEX20" -> 20
    [] elem_type = "TET10" -> 10
    [] elem_type = "PRISM15" -> 15
    [] elem_type = "PYRAMID13" -> 13
    [] OTHER -> 2

----------------------------------------------------------------------------
(* Values of variables that are read before they are written *)

\* an int read while uninitialised
Indeterminate == {0, 9}

\* ansys_element_type read while uninitialised
IndeterminateCode == {0, SOLID226}

\* a slot holding a pointer that mesh.node_ptr() never validated
Dangling == -1

----------------------------------------------------------------------------
(* The driver loop: line 127-136, 180, 192, 360, 455-463 *)

\* the getline at the top of the loop
Top == Getline(in, s)

\* if (in); the model stops after MaxDriverReads lines have been classified
TopOk == ~Top.st.fail /\ Len(classified) < MaxDriverReads

TopLine == Text(Top.s)

\* whether a getline moved the stream, i.e. extracted a line
Extracted(before, g) == g.st.pos # before.pos

\* history kept by every pass through the top of the loop
NoteTop ==
  /\ classified' = IF TopOk THEN Append(classified, Top.s) ELSE classified
  /\ handoff' = [from |-> lastBlock, endLine |-> endLine,
                 next |-> IF TopOk THEN Top.s ELSE 0]

\* what no pass through the top of the loop changes by itself
MeshUnchanged ==
  UNCHANGED <<mesh_points, mesh_elems, subdomain_names, nodesets, nodeset_names>>

ElemLocalsUnchanged ==
  UNCHANGED <<prev_elem_nodes, block_elem_types, block_nums, blocks, records>>

GroupLocalsUnchanged == UNCHANGED <<n_nodeset_nodes, nodes, nodeset_name, prev_line, groupVals>>

\* else if (in.eof()) break;
EndOfStream ==
  /\ pc = "driver"
  /\ ~TopOk /\ Top.st.eof
  /\ in' = Top.st /\ s' = Top.s
  /\ pc' = "done"
  /\ NoteTop
  /\ MeshUnchanged /\ ElemLocalsUnchanged /\ GroupLocalsUnchanged
  /\ UNCHANGED <<file, trailingNL, indeterminate_type, reads, id, iel, block_num, nodeset_id, ansys_element_type,
                 ansys_to_libmesh_node_id_map, cdb_maps, nodeMatches, lastBlock, endLine>>

\* else libmesh_error_msg("Stream is bad! ...")
StreamBad ==
  /\ pc = "driver"
  /\ ~TopOk /\ ~Top.st.eof
  /\ in' = Top.st /\ s' = Top.s
  /\ pc' = "error"
  /\ NoteTop
  /\ MeshUnchanged /\ ElemLocalsUnchanged /\ GroupLocalsUnchanged
  /\ UNCHANGED <<file, trailingNL, indeterminate_type, reads, id, iel, block_num, nodeset_id, ansys_element_type,
                 ansys_to_libmesh_node_id_map, cdb_maps, nodeMatches, lastBlock, endLine>>

\* a skip that reads one more line, as the branch of a declaration line does
SkipLine_two ==
  /\ pc = "driver"
  /\ TopOk
  /\ ~StartsNBLOCK(TopLine) /\ ~StartsET(TopLine) /\ ~StartsTYPE(TopLine)
  /\ ~HasCMBLOCK(TopLine)
  /\ LET g == Getline(Top.st, Top.s) IN in' = g.st /\ s' = g.s
  /\ pc' = "driver"
  /\ NoteTop
  /\ lastBlock' = "skip" /\ endLine' = 0
  /\ MeshUnchanged /\ ElemLocalsUnchanged /\ GroupLocalsUnchanged
  /\ UNCHANGED <<file, trailingNL, indeterminate_type, reads, id, iel, block_num, nodeset_id, ansys_element_type,
                 ansys_to_libmesh_node_id_map, cdb_maps, nodeMatches>>

\* a line no branch of the loop recognises
SkipLine ==
  /\ pc = "driver"
  /\ TopOk
  /\ ~StartsNBLOCK(TopLine) /\ ~StartsET(TopLine) /\ ~StartsTYPE(TopLine)
  /\ ~HasCMBLOCK(TopLine)
  /\ in' = Top.st /\ s' = Top.s
  /\ pc' = "driver"
  /\ NoteTop
  /\ lastBlock' = "skip" /\ endLine' = 0
  /\ MeshUnchanged /\ ElemLocalsUnchanged /\ GroupLocalsUnchanged
  /\ UNCHANGED <<file, trailingNL, indeterminate_type, reads, id, iel, block_num, nodeset_id, ansys_element_type,
                 ansys_to_libmesh_node_id_map, cdb_maps, nodeMatches>>

----------------------------------------------------------------------------
(* The coordinate block: line 136-178 *)

\* the branch up to the first test of the while loop
ReadNBLOCK ==
  /\ pc = "driver"
  /\ TopOk /\ StartsNBLOCK(TopLine)
  /\ LET g1 == Getline(Top.st, Top.s)
         g2 == Getline(g1.st, g1.s)
         sol == Tellg(g2.st)
         st == Seekg(sol.st, sol.p)
     IN  /\ in' = st /\ s' = g2.s
         /\ pc' = IF MatchesNodeRegex(Text(g2.s)) THEN "nodes" ELSE "driver"
         /\ endLine' = IF Extracted(g1.st, g2) THEN g2.s ELSE 0
  /\ lastBlock' = "nodes"
  /\ NoteTop
  /\ MeshUnchanged /\ ElemLocalsUnchanged /\ GroupLocalsUnchanged
  /\ UNCHANGED <<file, trailingNL, indeterminate_type, reads, id, iel, block_num, nodeset_id, ansys_element_type,
                 ansys_to_libmesh_node_id_map, cdb_maps, nodeMatches>>

\* add_point with ids that start at 1
add_point_from_one(points, p, n) == MapPut(points, n + 1, p)

\* mesh.add_point(p, id): a new point, or new coordinates for the point with that id
add_point(points, p, n) == MapPut(points, n, p)

\* one pass of while(std::regex_match(s, regexp))
NodeRecord ==
  /\ pc = "nodes"
  /\ MatchesNodeRegex(Text(s))
  /\ id < MaxPoints
  /\ LET l == Text(s)
         ansys_id == l.v[1]
         g == Getline(in, s)
     IN  /\ mesh_points' = add_point(mesh_points, <<l.v[4], l.v[5], l.v[6]>>, id)
         /\ ansys_to_libmesh_node_id_map' = MapPut(ansys_to_libmesh_node_id_map, ansys_id, id)
         /\ id' = id + 1
         /\ in' = g.st /\ s' = g.s
         /\ pc' = IF MatchesNodeRegex(Text(g.s)) THEN "nodes" ELSE "driver"
         /\ endLine' = IF Extracted(in, g) THEN g.s ELSE 0
  /\ nodeMatches' = Append(nodeMatches, s)
  /\ ElemLocalsUnchanged /\ GroupLocalsUnchanged
  /\ UNCHANGED <<file, trailingNL, indeterminate_type, reads, iel, block_num, nodeset_id, ansys_element_type, cdb_maps,
                 mesh_elems, subdomain_names, nodesets, nodeset_names,
                 classified, lastBlock, handoff>>

----------------------------------------------------------------------------
(* The element type declaration: line 180-190 *)

ReadET ==
  /\ pc = "driver"
  /\ TopOk /\ StartsET(TopLine)
  /\ LET tokens == tokenize(TopLine)
         g == Getline(Top.st, Top.s)
     IN  IF StoiThrows(tokens[3])
         THEN /\ pc' = "threw"
              /\ in' = Top.st /\ s' = Top.s
              /\ UNCHANGED ansys_element_type
         ELSE /\ pc' = "driver"
              /\ ansys_element_type' = <<Stoi(tokens[3])>>
              /\ in' = g.st /\ s' = g.s
  /\ lastBlock' = "et" /\ endLine' = 0
  /\ NoteTop
  /\ MeshUnchanged /\ ElemLocalsUnchanged /\ GroupLocalsUnchanged
  /\ UNCHANGED <<file, trailingNL, indeterminate_type, reads, id, iel, block_num, nodeset_id,
                 ansys_to_libmesh_node_id_map, cdb_maps, nodeMatches>>

----------------------------------------------------------------------------
(* The element block: line 192-358 *)

\* the integers operator>> can take from the front of a line
IntPrefix(l) ==
  CASE l.k = "ints" -> l.v
    [] l.k = "node" -> SubSeq(l.v, 1, 4)
    [] l.k = "badnode" -> SubSeq(l.v, 1, 3)
    [] OTHER -> <<>>

\* text that is not a number follows the integers of the line
HasTrailingText(l) == l.k \notin {"ints", "empty"}

\* the i-th "strm >> x" on a line: the number; 0 when this extraction is the one that
\* meets text that is no number; otherwise x keeps the indeterminate value u it had
ExtractAt(l, i, u) ==
  IF i <= Len(IntPrefix(l)) THEN IntPrefix(l)[i]
  ELSE IF i = Len(IntPrefix(l)) + 1 /\ HasTrailingText(l) THEN 0
  ELSE u

\* line 268-280 erasing only an entry that repeats the one before it
RECURSIVE RemoveDuplicates_adjacent(_, _)
RemoveDuplicates_adjacent(q, set) ==
  IF q = <<>> THEN <<>>
  ELSE IF Head(q) \in set THEN RemoveDuplicates_adjacent(Tail(q), set)
  ELSE <<Head(q)>> \o RemoveDuplicates_adjacent(Tail(q), {Head(q)})

\* line 268-280: erase every entry that was seen before
RECURSIVE RemoveDuplicates(_, _)
RemoveDuplicates(q, set) ==
  IF q = <<>> THEN <<>>
  ELSE IF Head(q) \in set THEN RemoveDuplicates(Tail(q), set)
  ELSE <<Head(q)>> \o RemoveDuplicates(Tail(q), set \cup {Head(q)})

\* line 320-329 taking the i-th id of the list for slot i
RECURSIVE SetNodes_unpermuted(_, _, _, _, _, _, _)
SetNodes_unpermuted(i, n, elem_map, nds, map, slots, ub) ==
  IF i = n THEN [map |-> map, slots |-> slots, crashed |-> FALSE]
  ELSE LET fid == nds[i + 1]
           m2 == MapTouch(map, fid, 0)
           loc == m2[fid]
       IN  IF loc \in DOMAIN mesh_points
           THEN SetNodes_unpermuted(i + 1, n, elem_map, nds, m2, MapPut(slots, i, loc), ub)
           ELSE IF ub = "crash"
           THEN [map |-> m2, slots |-> slots, crashed |-> TRUE]
           ELSE SetNodes_unpermuted(i + 1, n, elem_map, nds, m2, MapPut(slots, i, Dangling), ub)

\* line 320-329: the set_node loop from slot i on.  node_ptr() of an id the mesh does
\* not hold is undefined: the run stops there (ub = "crash") or the slot dangles.
RECURSIVE SetNodes(_, _, _, _, _, _, _)
SetNodes(i, n, elem_map, nds, map, slots, ub) ==
  IF i = n THEN [map |-> map, slots |-> slots, crashed |-> FALSE]
  ELSE LET fid == nds[elem_map[i + 1] + 1]
           m2 == MapTouch(map, fid, 0)
           loc == m2[fid]
       IN  IF loc \in DOMAIN mesh_points
           THEN SetNodes(i + 1, n, elem_map, nds, m2, MapPut(slots, i, loc), ub)
           ELSE IF ub = "crash"
           THEN [map |-> m2, slots |-> slots, crashed |-> TRUE]
           ELSE SetNodes(i + 1, n, elem_map, nds, m2, MapPut(slots, i, Dangling), ub)

\* the branch up to the first test of while(true)
ReadTYPE ==
  /\ pc = "driver"
  /\ TopOk /\ StartsTYPE(TopLine)
  /\ LET g1 == Getline(Top.st, Top.s)
         g2 == Getline(g1.st, g1.s)
         g3 == Getline(g2.st, g2.s)
     IN  in' = g3.st /\ s' = g3.s
  /\ prev_elem_nodes' = -1
  /\ block_elem_types' = <<>>
  /\ block_nums' = <<block_num>>
  /\ blocks' = Append(blocks, [iel0 |-> iel, num0 |-> block_num])
  /\ UNCHANGED records
  /\ pc' = "elems"
  /\ lastBlock' = "elems" /\ endLine' = 0
  /\ NoteTop
  /\ MeshUnchanged /\ GroupLocalsUnchanged
  /\ UNCHANGED <<file, trailingNL, indeterminate_type, reads, id, iel, block_num, nodeset_id, ansys_element_type,
                 ansys_to_libmesh_node_id_map, cdb_maps, nodeMatches>>

\* line 307 without the test for the first record of a block
TypeChanged_unguarded(prev, n) == prev # n

\* line 307: the node count differs from the one of the record before
TypeChanged(prev, n) == prev # -1 /\ prev # n

\* the codes ansys_element_type can hold when the record is read: the declared one, or
\* what its storage held when read_mesh was entered, since nothing has written to it
ActiveCodes ==
  IF ansys_element_type = <<>> THEN {indeterminate_type} ELSE {ansys_element_type[1]}

\* add_elem with element ids that start at 1
add_elem_from_one(elems, e, n) == MapPut(elems, n + 1, e)

\* line 316, 331: mesh.add_elem(Elem::build_with_id(elem_type, iel++)); adding the same
\* element once more changes nothing
add_elem(elems, e, n) == MapPut(elems, n, e)

\* one pass of while(true) that does not meet "-1": one connectivity record
ElemRecord ==
  /\ pc = "elems"
  /\ ~HasMinusOne(Text(s))
  /\ iel < MaxElems
  /\ LET l1 == Text(s)
         \* some "strm >> x" of the record leaves x as it was
         short == Len(IntPrefix(l1)) < 19
                    \/ (IntPrefix(l1)[9] > 8
                        /\ Len(IntPrefix(Text(Getline(in, s).s))) < IntPrefix(l1)[9] - 8)
     IN
     \E u \in (IF short THEN Indeterminate ELSE {0}), code \in ActiveCodes :
       LET n_cdb_nodes == ExtractAt(l1, 9, u)
           first8 == [i \in 1..8 |-> ExtractAt(l1, 11 + i, u)]
           g2 == IF n_cdb_nodes > 8 THEN Getline(in, s) ELSE [st |-> in, s |-> s]
           more == IF n_cdb_nodes > 8
                   THEN [i \in 1..(n_cdb_nodes - 8) |-> ExtractAt(Text(g2.s), i, u)]
                   ELSE <<>>
           nds == RemoveDuplicates(first8 \o more, {})
           n_elem_nodes == Len(nds)
           table == TouchTable(cdb_maps, code, n_elem_nodes)
           elem_map0 == table[code].ansys_node_ordering_map[n_elem_nodes]
           elem_type == table[code].ansys_to_libmesh_elem_type_map[n_elem_nodes]
           block_elem_type == table[code].ansys_to_libmesh_elem_type_string_map[n_elem_nodes]
           changed == TypeChanged(prev_elem_nodes, n_elem_nodes)
           bn == IF changed THEN block_num + 1 ELSE block_num
           \* elem_map[i] past the end of the vector is undefined: it reads any index
           oob == Len(elem_map0) < n_elem_nodes
           g3 == Getline(g2.st, g2.s)
       IN
       \E gi \in (IF oob THEN {0, n_elem_nodes - 1} ELSE {0}) :
         LET elem_map == IF oob THEN [i \in 1..n_elem_nodes |-> gi] ELSE elem_map0
             stop == IF oob
                     THEN [map |-> ansys_to_libmesh_node_id_map, slots |-> EmptyMap,
                           crashed |-> TRUE]
                     ELSE SetNodes(0, n_elem_nodes, elem_map, nds,
                                   ansys_to_libmesh_node_id_map, EmptyMap, "crash")
         IN
         \E ub \in (IF stop.crashed THEN {"crash", "go"} ELSE {"go"}) :
           LET fill == IF ub = "crash" \/ ~stop.crashed THEN stop
                       ELSE SetNodes(0, n_elem_nodes, elem_map, nds,
                                     ansys_to_libmesh_node_id_map, EmptyMap, "go")
           IN  /\ cdb_maps' = table
               /\ block_elem_types' = IF prev_elem_nodes = -1 \/ changed
                                      THEN Append(block_elem_types, block_elem_type)
                                      ELSE block_elem_types
               /\ block_nums' = IF changed THEN Append(block_nums, bn) ELSE block_nums
               /\ block_num' = bn
               /\ mesh_elems' = add_elem(mesh_elems,
                                   [type |-> elem_type, subdomain_id |-> bn, node |-> fill.slots],
                                   iel)
               /\ iel' = iel + 1
               /\ records' = Append(records,
                                [line |-> s, nodes |-> nds, code |-> code, iel |-> iel,
                                 declared |-> n_cdb_nodes, raw |-> first8 \o more])
               /\ ansys_to_libmesh_node_id_map' = fill.map
               /\ IF fill.crashed
                  THEN /\ pc' = "crashed"
                       /\ in' = g2.st /\ s' = g2.s
                       /\ UNCHANGED prev_elem_nodes
                  ELSE /\ pc' = "elems"
                       /\ in' = g3.st /\ s' = g3.s
                       /\ prev_elem_nodes' = n_elem_nodes
  /\ GroupLocalsUnchanged
  /\ UNCHANGED <<file, trailingNL, indeterminate_type, reads, id, nodeset_id, ansys_element_type,
                 mesh_points, subdomain_names, nodesets, nodeset_names,
                 nodeMatches, classified, lastBlock, endLine, handoff, blocks>>

\* line 352 without the element type in the name
RECURSIVE NameBlocks_untyped(_, _, _, _, _)
NameBlocks_untyped(names, it, nums, types, block_name) ==
  IF it > Len(types) THEN names
  ELSE NameBlocks_untyped(MapPut(names, nums[it], block_name), it + 1, nums, types, block_name)

\* line 352: one name per partition the block opened
RECURSIVE NameBlocks(_, _, _, _, _)
NameBlocks(names, it, nums, types, block_name) ==
  IF it > Len(types) THEN names
  ELSE NameBlocks(MapPut(names, nums[it], block_name \o <<"_">> \o types[it]),
                  it + 1, nums, types, block_name)

\* the name read with tokens[1] when the line has a single field
IndeterminateName == <<"?">>

\* an element block that leaves the partition id as its last record left it
NextBlockNum_same(n) == n

\* line 357: block_num++ after the block was named
NextBlockNum(n) == n + 1

\* the pass of while(true) that meets "-1", and the naming after the loop
ElemBlockEnd ==
  /\ pc = "elems"
  /\ HasMinusOne(Text(s))
  /\ \E ub \in (IF Len(tokenize(Text(Getline(in, s).s))) < 2 THEN {"crash", "go"} ELSE {"go"}) :
       LET g == Getline(in, s)
           tokens == tokenize(Text(g.s))
           \* tokens[1] of a line without a comma is undefined
           oob == Len(tokens) < 2
           block_name == Trim(IF oob THEN IndeterminateName ELSE tokens[2])
       IN  /\ in' = g.st /\ s' = g.s
           /\ IF oob /\ ub = "crash"
              THEN /\ pc' = "crashed"
                   /\ UNCHANGED <<subdomain_names, block_num>>
              ELSE /\ pc' = "driver"
                   /\ subdomain_names' =
                        NameBlocks(subdomain_names, 1, block_nums, block_elem_types, block_name)
                   /\ block_num' = NextBlockNum(block_num)
  /\ lastBlock' = "elems" /\ endLine' = 0
  /\ GroupLocalsUnchanged
  /\ UNCHANGED <<file, trailingNL, indeterminate_type, reads, id, iel, nodeset_id, ansys_element_type,
                 ansys_to_libmesh_node_id_map, cdb_maps,
                 mesh_points, mesh_elems, nodesets, nodeset_names,
                 prev_elem_nodes, block_elem_types, block_nums, blocks, records,
                 nodeMatches, classified, handoff>>

----------------------------------------------------------------------------
(* The node-group block: line 360-453 *)

\* line 403-433 with a range loop that stops one value early
RECURSIVE ExpandLine_short(_, _, _, _)
ExpandLine_short(nds, vals, i, u) ==
  IF i > 8 \/ i > Len(vals) THEN nds
  ELSE IF vals[i] < 0
  THEN LET upper_bound == 0 - vals[i]
           pushed == Append(nds, upper_bound)
           lower_bound == IF Len(pushed) >= 2 THEN pushed[Len(pushed) - 1] ELSE u
           range == [r \in 1..(upper_bound - 1 - lower_bound) |-> lower_bound + r - 1]
       IN  ExpandLine_short(pushed \o range, vals, i + 1, u)
  ELSE ExpandLine_short(Append(nds, vals[i]), vals, i + 1, u)

\* line 403-433: the values of one record line from the i-th on, appended to the
\* vector; u is what *(&nodes.back() - 1) reads when the vector holds one entry
RECURSIVE ExpandLine(_, _, _, _)
ExpandLine(nds, vals, i, u) ==
  IF i > 8 \/ i > Len(vals) THEN nds
  ELSE IF vals[i] < 0
  THEN LET upper_bound == 0 - vals[i]
           pushed == Append(nds, upper_bound)
           lower_bound == IF Len(pushed) >= 2 THEN pushed[Len(pushed) - 1] ELSE u
           range == [r \in 1..(upper_bound - lower_bound) |-> lower_bound + r - 1]
       IN  ExpandLine(pushed \o range, vals, i + 1, u)
  ELSE ExpandLine(Append(nds, vals[i]), vals, i + 1, u)

\* the branch up to the first test of the while loop
ReadCMBLOCK ==
  /\ pc = "driver"
  /\ TopOk /\ HasCMBLOCK(TopLine)
  /\ LET tokens == tokenize(TopLine)
         g1 == Getline(Top.st, Top.s)
         g2 == Getline(g1.st, g1.s)
     IN  IF StoiThrows(tokens[4])
         THEN /\ pc' = "threw"
              /\ in' = Top.st /\ s' = Top.s
              /\ endLine' = 0
              /\ UNCHANGED <<n_nodeset_nodes, nodes, nodeset_name, prev_line, groupVals>>
         ELSE /\ pc' = "group"
              /\ n_nodeset_nodes' = Stoi(tokens[4])
              /\ nodeset_name' = Trim(tokens[2])
              /\ nodes' = <<>>
              /\ groupVals' = <<>>
              /\ prev_line' = 0
              /\ in' = g2.st /\ s' = g2.s
              /\ endLine' = IF Extracted(g1.st, g2) THEN g2.s ELSE 0
  /\ lastBlock' = "group"
  /\ NoteTop
  /\ MeshUnchanged /\ ElemLocalsUnchanged
  /\ UNCHANGED <<file, trailingNL, indeterminate_type, reads, id, iel, block_num, nodeset_id, ansys_element_type,
                 ansys_to_libmesh_node_id_map, cdb_maps, nodeMatches>>

\* one pass of while(std::regex_match(s, nodeset_regex))
GroupRecord ==
  /\ pc = "group"
  /\ MatchesNodesetRegex(Text(s))
  /\ Len(nodes) <= MaxGroupNodes
  /\ \E u \in Indeterminate : nodes' = ExpandLine(nodes, Text(s).v, 1, u)
  /\ LET vals == Text(s).v
     IN  groupVals' = groupVals \o SubSeq(vals, 1, IF Len(vals) > 8 THEN 8 ELSE Len(vals))
  /\ LET t == Tellg(in)
         g == Getline(t.st, s)
     IN  /\ prev_line' = t.p
         /\ in' = g.st /\ s' = g.s
         /\ endLine' = IF Extracted(t.st, g) THEN g.s ELSE 0
  /\ MeshUnchanged /\ ElemLocalsUnchanged
  /\ UNCHANGED <<file, trailingNL, indeterminate_type, reads, pc, id, iel, block_num, nodeset_id, ansys_element_type,
                 ansys_to_libmesh_node_id_map, cdb_maps, n_nodeset_nodes, nodeset_name,
                 nodeMatches, classified, lastBlock, handoff>>

\* ansys_to_libmesh_node_id_map[node] for every entry of the vector: the map afterwards
RECURSIVE TouchAll(_, _)
TouchAll(map, q) ==
  IF q = <<>> THEN map ELSE TouchAll(MapTouch(map, Head(q), 0), Tail(q))

\* line 441-452: after the loop
GroupEnd ==
  /\ pc = "group"
  /\ ~MatchesNodesetRegex(Text(s))
  /\ LET map == TouchAll(ansys_to_libmesh_node_id_map, nodes)
     IN  /\ ansys_to_libmesh_node_id_map' = map
         /\ nodesets' = IF nodes = <<>> THEN nodesets
                        ELSE MapPut(nodesets, nodeset_id,
                               MapAt(nodesets, nodeset_id, {}) \cup { map[n] : n \in Range(nodes) })
  /\ nodeset_names' = MapPut(nodeset_names, nodeset_id, nodeset_name)
  /\ nodeset_id' = nodeset_id + 1
  /\ in' = Seekg(in, prev_line)
  /\ pc' = "driver"
  /\ ElemLocalsUnchanged
  /\ UNCHANGED <<file, trailingNL, indeterminate_type, reads, s, id, iel, block_num, ansys_element_type, cdb_maps,
                 mesh_points, mesh_elems, subdomain_names,
                 n_nodeset_nodes, nodes, nodeset_name, prev_line, groupVals,
                 nodeMatches, classified, lastBlock, endLine, handoff>>

----------------------------------------------------------------------------
(* The input files of the model *)

SeqsUpTo(S, n) == UNION { [1..k -> S] : k \in 0..n }

ET226 == ETLine(<<"2","2","6">>)

ET185 == ETLine(<<"1","8","5">>)

\* the first line of a connectivity record: 8 fields, the declared node count,
\* one field, the element id, 8 node ids
RecordLine(n_cdb_nodes, first8) == Ints(<<1, 1, 1, 1, 0, 0, 0, 0, n_cdb_nodes, 0, 1>> \o first8)

\* 20 distinct nodes
Rec20 == <<RecordLine(20, <<1, 2, 3, 4, 5, 6, 7, 8>>),
           Ints(<<9, 10, 11, 12, 13, 14, 15, 16, 17, 18, 19, 20>>)>>

\* 20 declared nodes, 10 distinct ones: a degenerate brick
Rec10 == <<RecordLine(20, <<1, 2, 3, 3, 4, 4, 4, 4>>),
           Ints(<<5, 6, 3, 7, 4, 4, 4, 4, 8, 9, 10, 10>>)>>

\* 10 distinct nodes, one of them (99) declared by no coordinate block
RecMissing == <<RecordLine(20, <<1, 2, 3, 3, 4, 4, 4, 4>>),
                Ints(<<5, 6, 3, 7, 4, 4, 4, 4, 8, 9, 99, 99>>)>>

\* 8 declared nodes, 3 distinct ones: no SOLID226 shape has 3 nodes
Rec3 == <<RecordLine(8, <<1, 2, 3, 3, 3, 3, 3, 3>>)>>

Records == {Rec10, Rec20, Rec3, RecMissing}

Minus1 == Ints(<<-1>>)

NameA == <<" ", "A", " ">>

NameB == <<"B">>

\* an element block with its terminator and its name line
ElemBlock(recs, name) == <<TYPE, EBLOCK, FMT>> \o Flatten(recs) \o <<Minus1, NameLine(name)>>

\* the same block cut short: no name line, or no terminator either
ElemBlockCut(recs, cut) ==
  <<TYPE, EBLOCK, FMT>> \o Flatten(recs) \o (IF cut = 1 THEN <<Minus1>> ELSE <<>>)

\* a node-group block: the header, the format line and the record lines
GroupBlock(name, count, lines) == <<CMB(name, count), FMT>> \o lines

GroupLines == {Ints(<<1, 2, 4, -6>>), Ints(<<2>>), Ints(<<-3>>)}

NodeLines == {NodeLine(1, 10), NodeLine(2, 20), BadNodeLine(3)}

\* a coordinate block declaring the foreign ids 1..k, closed as ANSYS closes it
RECURSIVE NodeRun(_)
NodeRun(k) == IF k = 0 THEN <<>> ELSE Append(NodeRun(k - 1), NodeLine(k, 10 * k))

FullNodes(k) == <<NB, FMT>> \o NodeRun(k) \o <<NEND>>

StdElems == <<ET226, FMT>> \o ElemBlock(<<Rec10>>, NameA)

StdGroup == GroupBlock(<<" ", "G">>, <<"8">>, <<Ints(<<1, 2, 4, -6>>)>>)

\* what can follow the node lines of a coordinate block
AfterNodes ==
  { <<>>,
    <<NEND>> \o StdElems \o StdGroup,
    StdElems \o StdGroup,
    ElemBlock(<<Rec10>>, NameA),
    StdGroup,
    <<NB, FMT, NodeLine(4, 40), NEND>>,
    <<NEND, NB, FMT, NodeLine(4, 40), NodeLine(1, 50), NEND>> }

\* files that vary the coordinate block
FilesN ==
  { <<NB, FMT>> \o run \o after : run \in SeqsUpTo(NodeLines, MaxNodeLines), after \in AfterNodes }

\* what can stand between the coordinate block and the element block
Declarations ==
  { <<>>, <<ET226, FMT>>, <<ET185, FMT>>, <<ET226>>, <<ET185, FMT, ET226, FMT>>,
    <<ET226, ET185, FMT>> }

\* files that vary the element block
FilesE ==
  { FullNodes(10) \o decl \o ElemBlock(recs, NameA) \o rest :
      decl \in Declarations, recs \in SeqsUpTo(Records, 1),
      rest \in {<<>>, ElemBlock(<<Rec20>>, NameB) \o StdGroup} }
  \cup
  { FullNodes(10) \o <<ET226, FMT>> \o ElemBlock(recs, NameA) \o rest :
      recs \in SeqsUpTo(Records, MaxRecs),
      rest \in {<<>>, ElemBlock(<<Rec20>>, NameB) \o StdGroup} }
  \cup
  { FullNodes(10) \o <<ET226, FMT>> \o ElemBlockCut(recs, cut) :
      recs \in SeqsUpTo(Records, 1), cut \in {0, 1} }
  \cup
  { FullNodes(20) \o <<ET226, FMT>> \o ElemBlock(recs, NameA) :
      recs \in SeqsUpTo({Rec10, Rec20}, MaxRecs) }
  \cup
  { FullNodes(10) \o <<ET226, FMT>> \o ElemBlock(<<Rec10>>, NameA) \o <<EBLOCK, FMT>> \o StdGroup,
    FullNodes(10) \o ElemBlock(<<Rec10, Rec10, Rec20>>, NameA),
    FullNodes(20) \o <<ET226, FMT>> \o ElemBlock(<<Rec10, Rec20>>, NameA)
      \o ElemBlock(<<Rec20>>, NameB) }

\* a declared member count that is an integer and no int: 9999999999
HugeCount == [i \in 1..10 |-> "9"]

\* what can follow the record lines of a node-group block
AfterGroup ==
  { <<>>, <<FMT>>, StdGroup, <<FMT>> \o StdGroup, <<NB, FMT, NodeLine(9, 90), NEND>>,
    <<ET226, FMT>>, ElemBlock(<<Rec3>>, NameB) }

\* files that vary the node-group block
FilesG ==
  { FullNodes(6) \o GroupBlock(NameA, count, lines) \o after :
      count \in {<<"8">>, <<" ", "5">>},
      lines \in SeqsUpTo(GroupLines, MaxGroupLines),
      after \in AfterGroup }
  \cup
  { GroupBlock(NameA, count, lines) \o after :
      count \in {<<"8">>, <<"0">>, HugeCount},
      lines \in SeqsUpTo(GroupLines, 1), after \in {<<>>, <<FMT>>, StdGroup} }
  \cup
  { FullNodes(6) \o <<CMB(NameA, <<"8">>), FMT, FMT>> \o lines :
      lines \in SeqsUpTo(GroupLines, 1) }

Files == FilesN \cup FilesE \cup FilesG \cup {<<>>}

\* the files of a further read() on the same reader object
FilesAgain ==
  { <<>>,
    <<NB, FMT, NodeLine(4, 40), NEND>> \o StdGroup,
    <<NB, FMT, NodeLine(7, 70), NodeLine(8, 80), NEND, ET185, FMT>> \o ElemBlock(<<Rec3>>, NameB) }

----------------------------------------------------------------------------
(* One import *)

\* the files of the imports whose termination is examined
LiveFiles ==
  { FullNodes(6) \o GroupBlock(NameA, <<"8">>, lines) \o after :
      lines \in SeqsUpTo(GroupLines, 1), after \in {<<>>, <<FMT>>} }
  \cup
  { GroupBlock(NameA, <<"8">>, lines) : lines \in SeqsUpTo(GroupLines, 1) }
  \cup
  { FullNodes(10) \o <<ET226, FMT>> \o ElemBlock(<<Rec10>>, NameA)
      \o ElemBlock(<<Rec20>>, NameB) \o StdGroup,
    FullNodes(10) \o <<ET226, FMT>> \o ElemBlockCut(<<Rec10>>, 0),
    FullNodes(10) \o <<ET226, FMT>> \o ElemBlockCut(<<Rec10>>, 1),
    <<NB, FMT, NodeLine(1, 10)>>,
    <<>> }

\* line 106-125 and the state a new reader object and a cleared mesh have, for an
\* import of one of the given files
InitFrom(files) ==
  /\ file \in files
  /\ trailingNL \in (IF file = <<>> THEN {TRUE} ELSE BOOLEAN)
  /\ reads = 1
  /\ in = [pos |-> 0, eof |-> FALSE, fail |-> FALSE]
  /\ s = 0
  /\ pc = "driver"
  /\ id = 0
  /\ iel = 0
  /\ block_num = 1
  /\ nodeset_id = 1
  /\ ansys_element_type = <<>>
  /\ indeterminate_type \in IndeterminateCode
  /\ ansys_to_libmesh_node_id_map = EmptyMap
  /\ cdb_maps = build_element_maps
  /\ mesh_points = EmptyMap
  /\ mesh_elems = EmptyMap
  /\ subdomain_names = EmptyMap
  /\ nodesets = EmptyMap
  /\ nodeset_names = EmptyMap
  /\ prev_elem_nodes = -1
  /\ block_elem_types = <<>>
  /\ block_nums = <<>>
  /\ n_nodeset_nodes = 0
  /\ nodes = <<>>
  /\ nodeset_name = <<>>
  /\ prev_line = 0
  /\ nodeMatches = <<>>
  /\ classified = <<>>
  /\ lastBlock = "none"
  /\ endLine = 0
  /\ handoff = [from |-> "none", endLine |-> 0, next |-> 0]
  /\ groupVals = <<>>
  /\ records = <<>>
  /\ blocks = <<>>

Init == InitFrom(Files)

LiveInit == InitFrom(LiveFiles)

\* a further read() on the same reader object after one that returned: line 100-125.
\* mesh.clear() empties the mesh and the locals of read_mesh are new; the node map is
\* a member of the reader and _cdb_maps is static, nothing assigns them here.
read ==
  /\ pc = "done"
  /\ reads < MaxReads
  /\ reads' = reads + 1
  /\ file' \in FilesAgain
  /\ trailingNL' \in (IF file' = <<>> THEN {TRUE} ELSE BOOLEAN)
  /\ in' = [pos |-> 0, eof |-> FALSE, fail |-> FALSE]
  /\ s' = 0
  /\ pc' = "driver"
  /\ id' = 0
  /\ iel' = 0
  /\ block_num' = 1
  /\ nodeset_id' = 1
  /\ ansys_element_type' = <<>>
  /\ indeterminate_type' \in IndeterminateCode
  /\ mesh_points' = EmptyMap
  /\ mesh_elems' = EmptyMap
  /\ subdomain_names' = EmptyMap
  /\ nodesets' = EmptyMap
  /\ nodeset_names' = EmptyMap
  /\ prev_elem_nodes' = -1
  /\ block_elem_types' = <<>>
  /\ block_nums' = <<>>
  /\ n_nodeset_nodes' = 0
  /\ nodes' = <<>>
  /\ nodeset_name' = <<>>
  /\ prev_line' = 0
  /\ nodeMatches' = <<>>
  /\ classified' = <<>>
  /\ lastBlock' = "none"
  /\ endLine' = 0
  /\ handoff' = [from |-> "none", endLine |-> 0, next |-> 0]
  /\ groupVals' = <<>>
  /\ records' = <<>>
  /\ blocks' = <<>>
  /\ UNCHANGED <<ansys_to_libmesh_node_id_map, cdb_maps>>

Next ==
  \/ read
  \/ EndOfStream
  \/ StreamBad
  \/ SkipLine
  \/ ReadNBLOCK
  \/ NodeRecord
  \/ ReadET
  \/ ReadTYPE
  \/ ElemRecord
  \/ ElemBlockEnd
  \/ ReadCMBLOCK
  \/ GroupRecord
  \/ GroupEnd

Spec == Init /\ [][Next]_vars

\* ENABLED <<ElemRecord>>_vars: a pass of the element loop always adds an element
ElemRecordEnabled == pc = "elems" /\ ~HasMinusOne(Text(s)) /\ iel < MaxElems

\* read_mesh is sequential code: the one step that can be taken is taken.  The
\* conjunct for ElemRecord is WF_vars(ElemRecord) with ENABLED written out.
Fairness ==
  /\ WF_vars(read) /\ WF_vars(EndOfStream) /\ WF_vars(StreamBad) /\ WF_vars(SkipLine)
  /\ WF_vars(ReadNBLOCK) /\ WF_vars(NodeRecord)
  /\ WF_vars(ReadET)
  /\ WF_vars(ReadTYPE) /\ WF_vars(ElemBlockEnd)
  /\ ([]<>(~ElemRecordEnabled) \/ []<><<ElemRecord>>_vars)
  /\ WF_vars(ReadCMBLOCK) /\ WF_vars(GroupRecord) /\ WF_vars(GroupEnd)

LiveSpec == LiveInit /\ [][Next]_vars /\ Fairness

TypeOK ==
  /\ pc \in {"driver", "nodes", "elems", "group", "done", "error", "crashed", "threw"}
  /\ in.pos \in 0..NLines
  /\ s \in 0..NLines

----------------------------------------------------------------------------
(* Notions the properties share *)

\* the import is still running or has come to its regular end
Continues == pc \in {"driver", "nodes", "elems", "group", "done"}

\* the foreign ids the coordinate blocks of this import have declared
DeclaredIds == { file[nodeMatches[k]].v[1] : k \in 1..Len(nodeMatches) }

\* a line that starts a block
IsBlockStart(l) == StartsNBLOCK(l) \/ StartsET(l) \/ StartsTYPE(l) \/ HasCMBLOCK(l)

\* the coordinates written on a node line
Coordinates(l) == <<l.v[4], l.v[5], l.v[6]>>

\* a read() has just begun: nothing of the stream was read yet
ReadBegins == pc = "driver" /\ classified = <<>> /\ lastBlock = "none" /\ in.pos = 0 /\ ~in.fail

----------------------------------------------------------------------------
(* C1 *)

----------------------------------------------------------------------------
(* C2 *)

\* C2: when a line that starts a block ends a coordinate block by not matching the
\* node pattern, it is the line the driver loop classifies next.
C2_EndLineClassifiedNext ==
  (handoff.from = "nodes" /\ handoff.endLine # 0 /\ IsBlockStart(Text(handoff.endLine)))
    => handoff.next = handoff.endLine

----------------------------------------------------------------------------
(* C3 *)

\* a node record with a non-numeric coordinate was read inside a coordinate block
MalformedRecordRead ==
  \/ \E k \in 1..Len(nodeMatches) :
       nodeMatches[k] < NLines /\ file[nodeMatches[k] + 1].k = "badnode"
  \/ lastBlock = "nodes" /\ endLine # 0 /\ Text(endLine).k = "badnode"

\* C3: once a malformed node record was read inside a coordinate block the import has
\* failed and the mesh holds no element.
C3_MalformedRecordFails ==
  MalformedRecordRead => (~Continues /\ DOMAIN mesh_elems = {})

----------------------------------------------------------------------------
(* C4, C5, C6 *)

LastRecord == records[Len(records)]

\* the element loop has just read a connectivity record of the current block, a line
\* of the file with all 19 numbers of a record
RecordJustRead ==
  /\ pc \in {"elems", "crashed"}
  /\ records # <<>>
  /\ LastRecord.iel = iel - 1
  /\ LastRecord.iel >= blocks[Len(blocks)].iel0
  /\ Len(IntPrefix(Text(LastRecord.line))) >= 19

\* the record was rejected: the import has failed and the record left no element
RecordRejected == ~Continues /\ LastRecord.iel \notin DOMAIN mesh_elems

\* the element type table as it is built at static initialisation
Registered == build_element_maps

\* every node id of the record was declared by a coordinate block of this import
RefsDeclared == \A n \in Range(LastRecord.nodes) : n \in DeclaredIds

\* an element type was declared and its code is in the element type table
CodeRegistered ==
  ansys_element_type # <<>> /\ ansys_element_type[1] \in DOMAIN Registered

\* the table has a sub-definition for the deduplicated node count of the record
CountSupported ==
  /\ CodeRegistered
  /\ Len(LastRecord.nodes) \in
       DOMAIN Registered[ansys_element_type[1]].ansys_node_ordering_map

\* C4: a connectivity record (with a registered code and a supported node count) that
\* references declared foreign node ids and one that no coordinate block of the import
\* has declared makes the import fail; no element is made of it.
C4_UnresolvedReferenceFails ==
  (RecordJustRead /\ CountSupported /\ ~RefsDeclared
     /\ \E n \in Range(LastRecord.nodes) : n \in DeclaredIds)
    => RecordRejected

\* C5: a connectivity record read while the active code is not registered, or was
\* never declared, makes the lookup fail; no element is made of it.
C5_UnknownTopologyFails ==
  (RecordJustRead /\ RefsDeclared /\ ~CodeRegistered) => RecordRejected

\* C6: a connectivity record whose deduplicated node count has no sub-definition
\* under the registered active code makes the lookup fail; no element is made of it.
C6_UnsupportedNodeCountFails ==
  (RecordJustRead /\ RefsDeclared /\ CodeRegistered /\ ~CountSupported) => RecordRejected

----------------------------------------------------------------------------
(* C7 *)

\* the id of the last element of the b-th element block
BlockLast(b) == (IF b < Len(blocks) THEN blocks[b + 1].iel0 ELSE iel) - 1

\* the effective node count of the record that made element k
EffCount(k) == Len(records[k + 1].nodes)

\* the number of changes of the effective node count between consecutive records
Changes(lo, hi) == Cardinality({ k \in (lo + 1)..hi : EffCount(k) # EffCount(k - 1) })

\* C7: in every element block the first element carries the partition id the block
\* started with, every further element carries the id of the element before it, plus
\* one exactly when its effective node count differs, and a block with t changes uses
\* the t+1 partition ids from its starting id on.
C7_PartitionPerChange ==
  /\ \A b \in 1..Len(blocks) :
       LET lo == blocks[b].iel0
           hi == BlockLast(b)
       IN  /\ lo <= hi => mesh_elems[lo].subdomain_id = blocks[b].num0
           /\ \A k \in (lo + 1)..hi :
                mesh_elems[k].subdomain_id =
                  mesh_elems[k - 1].subdomain_id
                    + (IF EffCount(k) # EffCount(k - 1) THEN 1 ELSE 0)
           /\ lo <= hi =>
                { mesh_elems[k].subdomain_id : k \in lo..hi }
                  = blocks[b].num0 .. (blocks[b].num0 + Changes(lo, hi))
  /\ blocks # <<>> =>
       LET lo == blocks[Len(blocks)].iel0
           t == Changes(lo, iel - 1)
       IN  block_nums = [i \in 1..(t + 1) |-> blocks[Len(blocks)].num0 + i - 1]

\* a finished block of three records whose node count changed twice
C7_Witness ==
  /\ pc = "driver" /\ lastBlock = "elems"
  /\ Len(block_nums) = 3
  /\ iel - blocks[Len(blocks)].iel0 = 3

----------------------------------------------------------------------------
(* C8 *)

\* an element block has ended and its partitions are named, each after a topology
\* of the element type table
BlockNamed ==
  /\ pc = "driver" /\ lastBlock = "elems"
  /\ \A i \in 1..Len(block_elem_types) : block_elem_types[i] # DefaultTypeString

\* C8 as claimed: the partitions opened during one element block all carry
\* different names.
C8_AllNamesDistinct ==
  BlockNamed =>
    \A i, j \in 1..Len(block_elem_types) :
      i # j => subdomain_names[block_nums[i]] # subdomain_names[block_nums[j]]

\* C8 as the code has it: two partitions opened during one element block carry
\* different names exactly when their resolved topology names differ.
C8_NamesDistinctPerTopology ==
  BlockNamed =>
    \A i, j \in 1..Len(block_elem_types) :
      (subdomain_names[block_nums[i]] # subdomain_names[block_nums[j]])
        <=> (block_elem_types[i] # block_elem_types[j])

\* a block with the node counts 10, 20, 10: the first and the third partition share
\* a name, the second has another one
C8_Witness ==
  /\ BlockNamed
  /\ Len(block_elem_types) = 3
  /\ subdomain_names[block_nums[1]] = subdomain_names[block_nums[3]]
  /\ subdomain_names[block_nums[1]] # subdomain_names[block_nums[2]]

----------------------------------------------------------------------------
(* C9 *)

\* the members a list of record values stands for: the values that are not negative,
\* and with a negative value -v after p every integer from p up to v
SpecMembers(vals) ==
  { vals[i] : i \in { j \in 1..Len(vals) : vals[j] >= 0 } }
    \cup UNION { vals[i - 1]..(0 - vals[i]) : i \in { j \in 2..Len(vals) : vals[j] < 0 } }

\* every negative value follows a positive value that is not above its bound
RangesWellFormed(vals) ==
  \A i \in 1..Len(vals) :
    vals[i] < 0 => (i > 1 /\ vals[i - 1] > 0 /\ vals[i - 1] <= 0 - vals[i])

\* C9: while and after a group block is read, the foreign ids collected are exactly
\* the members its record values stand for, ranges across two lines included, and
\* the group registered at the end holds the local ids of exactly these members.
C9_RangeExpansion ==
  ((pc = "group" \/ (pc = "driver" /\ lastBlock = "group")) /\ RangesWellFormed(groupVals))
    => /\ Range(nodes) = SpecMembers(groupVals)
       /\ groupVals = <<1, 2, 4, -6>> => Range(nodes) = {1, 2, 4, 5, 6}
       /\ (pc = "driver" /\ nodes # <<>>) =>
            /\ (nodeset_id - 1) \in DOMAIN nodesets
            /\ nodesets[nodeset_id - 1] =
                 { ansys_to_libmesh_node_id_map[m] : m \in SpecMembers(groupVals) }

\* a registered group whose range 2..3 is split over two record lines
C9_Witness ==
  /\ pc = "driver" /\ lastBlock = "group"
  /\ groupVals = <<2, -3>>
  /\ endLine # 0
  /\ (nodeset_id - 1) \in DOMAIN nodesets
  /\ Cardinality(nodesets[nodeset_id - 1]) = 2

----------------------------------------------------------------------------
(* C10 *)

\* C10: the line whose mismatch ends a node-group block is the line the driver loop
\* classifies next, whatever the number of record lines of the block.
C10_GroupEndLineClassifiedNext ==
  (handoff.from = "group" /\ handoff.endLine # 0) => handoff.next = handoff.endLine

----------------------------------------------------------------------------
(* C11 *)

\* C11: when a read begins, also one that follows earlier reads on the same reader
\* object, the foreign-to-local node map holds no entry.
C11_NodeMapEmptyWhenReadBegins ==
  ReadBegins => ansys_to_libmesh_node_id_map = EmptyMap

----------------------------------------------------------------------------
(* C12 *)

\* the node slots of element k that were filled
FilledSlots(k) == DOMAIN mesh_elems[k].node

\* the table lookup of the record that made element k found a topology
TopologyResolved(k) ==
  /\ records[k + 1].code \in DOMAIN Registered
  /\ EffCount(k) \in DOMAIN Registered[records[k + 1].code].ansys_node_ordering_map

\* C12: while the import runs and when it has ended, every element of the mesh whose
\* topology was resolved under a declared code has as many filled node slots as its topology has nodes, and
\* every slot refers to a point of the mesh, created earlier in this import.
C12_SlotsFilledWithPoints ==
  (Continues /\ ansys_element_type # <<>>) =>
    \A k \in DOMAIN mesh_elems :
      TopologyResolved(k) =>
        /\ Cardinality(FilledSlots(k)) = NSlots(mesh_elems[k].type)
        /\ \A i \in FilledSlots(k) : mesh_elems[k].node[i] \in DOMAIN mesh_points

----------------------------------------------------------------------------
(* C13 *)

\* two node lines the coordinate blocks of this import matched carry one foreign id
DuplicateForeignId ==
  \E j, k \in 1..Len(nodeMatches) :
    /\ nodeMatches[j] < nodeMatches[k]
    /\ file[nodeMatches[j]].v[1] = file[nodeMatches[k]].v[1]

\* C13: once two matched node lines carried the same foreign node id the import has
\* failed; the map entry of the earlier line is not replaced.
C13_DuplicateForeignIdFails ==
  DuplicateForeignId =>
    /\ ~Continues
    /\ \A k \in 1..Len(nodeMatches) :
         (\A j \in 1..(k - 1) : file[nodeMatches[j]].v[1] # file[nodeMatches[k]].v[1])
           => ansys_to_libmesh_node_id_map[file[nodeMatches[k]].v[1]] = k - 1

----------------------------------------------------------------------------
(* C14 *)

\* C14: during and after every import that declared its element type, the element
\* type table holds exactly the codes, node counts and sub-definitions built at
\* static initialisation.
C14_TableReadOnly ==
  ansys_element_type # <<>> => cdb_maps = Registered

----------------------------------------------------------------------------
(* C15 *)

\* the positions of a list that hold the first occurrence of their value
FirstPositions(q) == { i \in 1..Len(q) : \A j \in 1..(i - 1) : q[j] # q[i] }

\* the list with every repeated value removed, first occurrences in their order
FirstOccurrences(q) ==
  LET K == FirstPositions(q)
  IN  [r \in 1..Cardinality(K) |-> q[CHOOSE i \in K : Cardinality({ j \in K : j <= i }) = r]]

\* the record is written out in full on the lines of the file: 19 numbers on its
\* first line and, if it declares more than 8 nodes, the other ids on the next line
WrittenInFull(r) ==
  /\ r.line \in 1..NLines
  /\ file[r.line].k = "ints" /\ Len(file[r.line].v) >= 19
  /\ r.declared = file[r.line].v[9]
  /\ r.declared > 8 =>
       /\ r.line < NLines
       /\ file[r.line + 1].k = "ints" /\ Len(file[r.line + 1].v) >= r.declared - 8

\* the foreign ids the lines of the record reference
ReferencedIds(r) ==
  SubSeq(file[r.line].v, 12, 19)
    \o (IF r.declared > 8 THEN SubSeq(file[r.line + 1].v, 1, r.declared - 8) ELSE <<>>)

\* C15: for every connectivity record written out in full, the node list of the
\* element is the list of the referenced foreign ids with every repeated id removed,
\* first occurrences in their order, and the topology of its element is the one the
\* table of the record's code holds for the length of that list (the default one if
\* it holds none), not for the declared node count.
C15_DeduplicatedFirstOccurrences ==
  \A k \in 1..Len(records) :
    WrittenInFull(records[k]) =>
      LET r == records[k]
          dedup == FirstOccurrences(ReferencedIds(r))
      IN  /\ r.nodes = dedup
          /\ r.iel \in DOMAIN mesh_elems
          /\ r.code \in DOMAIN Registered =>
               mesh_elems[r.iel].type =
                 MapAt(Registered[r.code].ansys_to_libmesh_elem_type_map, Len(dedup),
                       DefaultElemType)

\* a finished import with a record that declares 20 nodes, references 10 different
\* ones, the third of them again after the sixth, and made a TET10
C15_Witness ==
  /\ pc = "done"
  /\ \E k \in 1..Len(records) :
       /\ WrittenInFull(records[k])
       /\ records[k].declared = 20
       /\ Len(records[k].nodes) = 10
       /\ Len(ReferencedIds(records[k])) = 20
       /\ mesh_elems[records[k].iel].type = "TET10"

----------------------------------------------------------------------------
(* C16 *)

\* read_mesh has returned, thrown or crashed
Terminated == pc \in {"done", "error", "crashed", "threw"}

\* the stream is a coordinate block and a node-group block whose last record line is
\* the last line of the file, without a newline after it
GroupCutShort ==
  /\ file # <<>> /\ ~trailingNL
  /\ MatchesNodesetRegex(file[NLines])
  /\ \E i \in 1..NLines : HasCMBLOCK(file[i])
  /\ \A i \in 1..NLines : ~StartsTYPE(file[i]) /\ ~StartsET(file[i])

\* a pass of a record loop over a failed stream ends where it began: the stream, the
\* line in s and the place in read_mesh are the same, so the loop test holds again
\* and the pass repeats; only the vectors and the mesh grow
FailedStreamLoopRepeats ==
  [][(in.fail /\ (NodeRecord \/ GroupRecord \/ (ElemRecord /\ pc' # "crashed")))
       => (in' = in /\ s' = s /\ pc' = pc)]_vars

----------------------------------------------------------------------------
(* C17 *)

\* the element-type declaration lines of the file before line n
DeclarationsBefore(n) == { i \in 1..(n - 1) : StartsET(file[i]) }

\* the last of a non-empty set of line numbers
LastOf(S) == CHOOSE i \in S : \A j \in S : j <= i

\* the code written on a declaration line
DeclaredCode(l) == Stoi(tokenize(l)[3])

\* line i is where a coordinate block looks for its node lines: one of the two lines
\* after the block header, or the line after a node line
InCoordinateBlock(i) ==
  \/ i > 1 /\ (StartsNBLOCK(file[i - 1]) \/ MatchesNodeRegex(file[i - 1]))
  \/ i > 2 /\ StartsNBLOCK(file[i - 2])

\* C17: in a file with no declaration line inside a coordinate block, every
\* connectivity record is resolved with the code of the most recent declaration line
\* before it in the file, and a finished import has classified every declaration line
\* of the file in its driver loop.
C17_MostRecentDeclaration ==
  (\A i \in 1..NLines : StartsET(file[i]) => ~InCoordinateBlock(i)) =>
    /\ \A k \in 1..Len(records) :
         (records[k].line # 0 /\ DeclarationsBefore(records[k].line) # {})
           => records[k].code = DeclaredCode(file[LastOf(DeclarationsBefore(records[k].line))])
    /\ pc = "done" =>
         \A i \in 1..NLines : StartsET(file[i]) => i \in Range(classified)

----------------------------------------------------------------------------
(* C18 *)

\* a field without the whitespace before its first and after its last other character
Trimmed(t) ==
  LET idx == { i \in 1..Len(t) : ~IsSpace(t[i]) }
  IN  IF idx = {} THEN <<>>
      ELSE SubSeq(t, CHOOSE i \in idx : \A j \in idx : i <= j,
                     CHOOSE i \in idx : \A j \in idx : j <= i)

\* the topology name the table holds for the record that made element k
TopologyName(k) ==
  IF records[k + 1].code \in DOMAIN Registered
  THEN MapAt(Registered[records[k + 1].code].ansys_to_libmesh_elem_type_string_map,
             EffCount(k), DefaultTypeString)
  ELSE DefaultTypeString

\* an element block of a declared type has just ended; the line after its terminator,
\* which s holds, has a second comma field
BlockJustNamed ==
  /\ pc = "driver" /\ lastBlock = "elems"
  /\ ansys_element_type # <<>>
  /\ Len(tokenize(Text(s))) >= 2

\* the elements of the last element block
LastBlockElems == blocks[Len(blocks)].iel0 .. (iel - 1)

\* every partition of the block that has ended is named after the trimmed second
\* field and the topology name of each of its elements
PartitionsNamed ==
  BlockJustNamed =>
    \A i \in 1..Len(block_elem_types) :
      /\ \E k \in LastBlockElems : mesh_elems[k].subdomain_id = block_nums[i]
      /\ \A k \in LastBlockElems :
           mesh_elems[k].subdomain_id = block_nums[i] =>
             subdomain_names[block_nums[i]]
               = Trimmed(tokenize(Text(s))[2]) \o <<"_">> \o TopologyName(k)

\* the end of a block leaves the names of the partitions of other blocks alone
OtherNamesKept ==
  ElemBlockEnd =>
    \A p \in DOMAIN subdomain_names :
      p \notin Range(block_nums) =>
        p \in DOMAIN subdomain_names' /\ subdomain_names'[p] = subdomain_names[p]

\* C18: after the terminator of an element block every partition opened during the
\* block is named <block_name>_<topology_name>, block_name the trimmed second comma
\* field of the line after the terminator and topology_name the one resolved for the
\* elements of the partition; the partitions of other blocks keep their names.
C18_PartitionNames ==
  []PartitionsNamed /\ [][OtherNamesKept]_vars

\* the second element block of a file has been named B_HEX20 while the partition of
\* the first block is still named A_TET10, after the name field " A "
C18_Witness ==
  /\ BlockJustNamed
  /\ Len(blocks) = 2
  /\ tokenize(Text(s))[2] = NameB
  /\ subdomain_names[block_nums[1]] = <<"B", "_", "HEX20">>
  /\ blocks[1].num0 \in DOMAIN subdomain_names
  /\ subdomain_names[blocks[1].num0] = <<"A", "_", "TET10">>

----------------------------------------------------------------------------
(* C19 *)

\* the header lines of the node-group blocks of the file
GroupHeaders == { i \in 1..NLines : HasCMBLOCK(file[i]) }

\* the header line of the k-th node-group block of the file
GroupHeader(k) ==
  CHOOSE i \in GroupHeaders : Cardinality({ j \in GroupHeaders : j <= i }) = k

\* every header line stands where the driver loop reads it: not inside a coordinate
\* block and not right after a declaration line
HeadersInDriver ==
  \A i \in GroupHeaders : ~InCoordinateBlock(i) /\ ~(i > 1 /\ StartsET(file[i - 1]))

\* C19: in a file whose group headers are read by the driver loop, a group id that
\* carries a name is the number k of a node-group block of the file and carries the
\* trimmed name of the k-th block; the group counter is one more than the number of
\* blocks read so far, and a finished import has named a group for every block.
C19_GroupIdPerBlock ==
  HeadersInDriver =>
    /\ \A g \in DOMAIN nodeset_names :
         /\ g \in 1..Cardinality(GroupHeaders)
         /\ nodeset_names[g] = Trimmed(tokenize(file[GroupHeader(g)])[2])
    /\ DOMAIN nodesets \subseteq DOMAIN nodeset_names
    /\ nodeset_id = Cardinality(DOMAIN nodeset_names) + 1
    /\ pc = "done" => DOMAIN nodeset_names = 1..Cardinality(GroupHeaders)

----------------------------------------------------------------------------
(* C20 *)

\* the driver loop is about to read a line that starts no block
UnrecognisedLineNext == pc = "driver" /\ TopOk /\ ~IsBlockStart(TopLine)

\* the step reads exactly the next line of the file and goes back to the driver loop
AdvancesOneLine ==
  /\ pc' = "driver"
  /\ in'.pos = in.pos + 1 /\ ~in'.fail
  /\ s' = in.pos + 1
  /\ classified' = Append(classified, in.pos + 1)

\* C20: the step from a driver loop that finds a line starting no block reads exactly
\* that line, raises no error and leaves the mesh, the node map, the node, element,
\* partition and group counters and the active topology code unchanged.
C20_UnrecognisedLineSkipped ==
  [][UnrecognisedLineNext =>
       /\ AdvancesOneLine
       /\ UNCHANGED <<mesh_points, mesh_elems, subdomain_names, nodesets, nodeset_names,
                      ansys_to_libmesh_node_id_map, id, iel, block_num, nodeset_id,
                      ansys_element_type>>]_vars

\* a line that starts no block was skipped after an element block, in an import with
\* points, elements and a declared code, and the next line is still to be read
C20_Witness ==
  /\ pc = "driver" /\ lastBlock = "skip"
  /\ mesh_points # EmptyMap /\ mesh_elems # EmptyMap
  /\ ansys_element_type # <<>>
  /\ Len(classified) >= 2
  /\ in.pos = classified[Len(classified)]
  /\ in.pos < NLines

----------------------------------------------------------------------------
(* C21 *)

\* the partition ids carried by the elements made before the b-th element block began
IdsUsedBefore(b) == { mesh_elems[k].subdomain_id : k \in 0..(blocks[b].iel0 - 1) }

\* the first element block starts at partition 1; a later one starts above the id the
\* block before it started with and above every id used by the elements before it
BlockIdsApart ==
  /\ blocks # <<>> => blocks[1].num0 = 1
  /\ \A b \in 2..Len(blocks) :
       /\ blocks[b].num0 > blocks[b - 1].num0
       /\ \A p \in IdsUsedBefore(b) : blocks[b].num0 > p

\* the elements of one partition have one topology
OneTopologyPerPartition ==
  \A j, k \in DOMAIN mesh_elems :
    mesh_elems[j].subdomain_id = mesh_elems[k].subdomain_id
      => mesh_elems[j].type = mesh_elems[k].type

\* C21: in every state of an import the elements that carry one partition id have one
\* resolved topology, the first element block starts at partition 1 and every later
\* block starts above every partition id used before it, an empty block included.
C21_PartitionsHomogeneous == OneTopologyPerPartition /\ BlockIdsApart

\* two element blocks were read to their end: the first one has two elements in its
\* first partition and a second partition, the second block starts at partition 3
C21_Witness ==
  /\ pc = "driver" /\ lastBlock = "elems"
  /\ iel = 4
  /\ Len(blocks) = 2
  /\ blocks[2].num0 = 3
  /\ blocks[2].iel0 = 3
  /\ mesh_elems[0].subdomain_id = mesh_elems[1].subdomain_id
  /\ mesh_elems[2].subdomain_id = 2
  /\ mesh_elems[3].subdomain_id = 3


----------------------------------------------------------------------------
(* C22 *)

\* the element loop has just built the element of a record of the current block, and
\* the table held a permutation for its code and its deduplicated node count
ElementJustBuilt ==
  /\ pc = "elems"
  /\ records # <<>>
  /\ LastRecord.iel = iel - 1
  /\ LastRecord.iel >= blocks[Len(blocks)].iel0
  /\ TopologyResolved(iel - 1)

\* the permutation the table holds for the last record
ResolvedPermutation ==
  Registered[LastRecord.code].ansys_node_ordering_map[Len(LastRecord.nodes)]

\* C22: when an element was built from a record with resolved permutation P and
\* deduplicated foreign-id list D, its slots are 0..len(D)-1, slot i holds the point
\* whose local id the node map gives for D[P[i]] (where the mesh has that point), and
\* every entry of D is taken for exactly one slot.
C22_PermutationApplied ==
  ElementJustBuilt =>
    LET D == LastRecord.nodes
        P == ResolvedPermutation
        e == mesh_elems[iel - 1]
    IN  /\ FilledSlots(iel - 1) = 0..(Len(D) - 1)
        /\ \A i \in 0..(Len(D) - 1) :
             LET fid == D[P[i + 1] + 1]
             IN  /\ fid \in DOMAIN ansys_to_libmesh_node_id_map
                 /\ ansys_to_libmesh_node_id_map[fid] \in DOMAIN mesh_points
                      => e.node[i] = ansys_to_libmesh_node_id_map[fid]
        /\ \A d \in 1..Len(D) :
             Cardinality({ i \in 0..(Len(D) - 1) : P[i + 1] + 1 = d }) = 1

\* a ten-node element was built from the ids 1, 2, 3, 4, 5, 6, 7, 8, 9, 10 declared in
\* this order: slot 0 holds the point of the third id, slot 7 the point of the tenth
C22_Witness ==
  /\ ElementJustBuilt
  /\ LastRecord.nodes = <<1, 2, 3, 4, 5, 6, 7, 8, 9, 10>>
  /\ mesh_elems[iel - 1].node[0] = 2
  /\ mesh_elems[iel - 1].node[1] = 0
  /\ mesh_elems[iel - 1].node[7] = 9
  /\ \A i \in FilledSlots(iel - 1) : mesh_elems[iel - 1].node[i] \in DOMAIN mesh_points

----------------------------------------------------------------------------
(* C23 *)

\* every node count a definition holds has one sub-definition, a permutation of
\* 0..n-1 with a topology and a topology name
DefinitionWellFormed(def) ==
  /\ DOMAIN def.ansys_to_libmesh_elem_type_map = DOMAIN def.ansys_node_ordering_map
  /\ DOMAIN def.ansys_to_libmesh_elem_type_string_map = DOMAIN def.ansys_node_ordering_map
  /\ \A n \in DOMAIN def.ansys_node_ordering_map :
       /\ Len(def.ansys_node_ordering_map[n]) = n
       /\ Range(def.ansys_node_ordering_map[n]) = 0..(n - 1)

TableWellFormed(maps) == \A code \in DOMAIN maps : DefinitionWellFormed(maps[code])

\* the table as built at static initialisation is well formed
RegisteredWellFormed == TableWellFormed(Registered)

\* C23: in every state of an import that declared its element type, every node count
\* held under a code of the element type table has exactly one sub-definition, and
\* its permutation is a bijection on 0..n-1 of length n.
C23_TableWellFormed ==
  ansys_element_type # <<>> => TableWellFormed(cdb_maps)

----------------------------------------------------------------------------
(* C24 *)

\* a node-group block is being read, or was read to its end and the driver loop has
\* not read a line since
InGroupBlock == pc = "group" \/ (pc = "driver" /\ lastBlock = "group")

\* the header line of the node-group block being read: the last line classified
CurrentGroupHeader == classified[Len(classified)]

\* the values of the consecutive record lines of the file from line j on, eight of a
\* line at most
RECURSIVE RecordRun(_)
RecordRun(j) ==
  IF j \in 1..NLines /\ MatchesNodesetRegex(file[j])
  THEN LET vals == file[j].v
       IN  SubSeq(vals, 1, IF Len(vals) > 8 THEN 8 ELSE Len(vals)) \o RecordRun(j + 1)
  ELSE <<>>

IsPrefix(a, b) == Len(a) <= Len(b) /\ SubSeq(b, 1, Len(a)) = a

\* C24: the two lines after the header of a node-group block are not interpreted: the
\* values read as records are those of the record lines that begin with the third
\* line after the header, all of them once the block has ended.
C24_TwoLinesSkipped ==
  InGroupBlock =>
    /\ IsPrefix(groupVals, RecordRun(CurrentGroupHeader + 3))
    /\ pc = "driver" => groupVals = RecordRun(CurrentGroupHeader + 3)

\* what the record loop reads while the stream has not failed: the record lines that
\* begin with the second line after the header
ParsingStartsAtSecondLine ==
  (InGroupBlock /\ CurrentGroupHeader + 2 <= NLines /\ ~in.fail)
    => IsPrefix(groupVals, RecordRun(CurrentGroupHeader + 2))

----------------------------------------------------------------------------
(* C25 *)

\* the number of consecutive record lines of the file from line j on
RECURSIVE NumRecordLines(_)
NumRecordLines(j) ==
  IF j \in 1..NLines /\ MatchesNodesetRegex(file[j]) THEN 1 + NumRecordLines(j + 1) ELSE 0

\* the vector the consecutive record lines of the file from line j on expand to
RECURSIVE ExpandRun(_, _, _)
ExpandRun(nds, j, u) ==
  IF j \in 1..NLines /\ MatchesNodesetRegex(file[j])
  THEN ExpandRun(ExpandLine(nds, file[j].v, 1, u), j + 1, u)
  ELSE nds

\* a node-group block was read to its end
GroupBlockEnded == pc = "driver" /\ lastBlock = "group"

\* the header of the block read last declares an integer as its member count
CountIsInteger ==
  /\ lastBlock = "group"
  /\ LET count == TrimLeft(tokenize(Text(CurrentGroupHeader))[4])
     IN  count # <<>> /\ DigitPrefix(count) = count

\* what a node-group block leaves behind, told from the lines after its header alone:
\* the members are those of the record lines that begin with the second line after
\* the header, the stream has failed when these lines reach the end of the file, and
\* otherwise stands before the line that ended the records (at the start of the file
\* when there was no record line)
OutcomeFromRecordLines ==
  LET h == CurrentGroupHeader
      k == NumRecordLines(h + 2)
  IN  /\ \E u \in Indeterminate : nodes = ExpandRun(<<>>, h + 2, u)
      /\ in.fail <=> h + 2 + k > NLines
      /\ ~in.fail => in.pos = IF k = 0 THEN 0 ELSE h + 1 + k
      /\ nodes # <<>> =>
           /\ (nodeset_id - 1) \in DOMAIN nodesets
           /\ nodesets[nodeset_id - 1] = { ansys_to_libmesh_node_id_map[n] : n \in Range(nodes) }

\* a block whose header declares a count that std::stoi converts is read to an end
\* that its record lines alone determine
CountWithinIntIgnored == GroupBlockEnded => OutcomeFromRecordLines

\* C25: whatever integer the header of a node-group block declares as its member
\* count, the block is read, and the members it registers and the place it leaves the
\* stream at are those its record lines determine.
C25_CountNotTrusted ==
  /\ CountIsInteger => pc # "threw"
  /\ GroupBlockEnded => OutcomeFromRecordLines

----------------------------------------------------------------------------
(* C26 *)

\* C26: only the record loop of a coordinate block writes the foreign-to-local node
\* map: every other step of an import, the steps of an element block and of a
\* node-group block among them, leaves its keys and its values as they were.
C26_MapWrittenByCoordinateBlockOnly ==
  [][pc # "nodes" => ansys_to_libmesh_node_id_map' = ansys_to_libmesh_node_id_map]_vars

----------------------------------------------------------------------------
(* C27 *)

\* C27: within one import the driver loop classifies the lines of the file in
\* ascending order, none of them twice: when a block has been read the stream stands
\* behind the line that started it, also after a node-group block without record
\* lines.
C27_NoLineClassifiedTwice ==
  \A i, j \in 1..Len(classified) : i < j => classified[i] < classified[j]

----------------------------------------------------------------------------
(* C28 *)

====
